---- MODULE Spec2Model ----
(***************************************************************************)
(* AgentPool (app/agent_pool.py) and the endpoints of app/main.py that     *)
(* drive it, as a state machine.                                           *)
(*                                                                         *)
(* The program is an asyncio application: every request handler and the    *)
(* background cleanup task is a coroutine on one event loop.  A coroutine  *)
(* runs, once the loop picks it, until it reaches an await that suspends,  *)
(* and nothing else runs meanwhile.  The awaits that suspend are           *)
(*   - `await agent.invoke_async(...)` in chat,                            *)
(*   - `await asyncio.sleep(60)` in _cleanup_loop,                         *)
(*   - `await self._cleanup_task` in stop, while the task has not ended,   *)
(*   - `async with self._lock`, while another coroutine holds the lock.    *)
(* `await self._evict_oldest()` runs the callee to its end without         *)
(* suspending, and _create_agent is an ordinary function.  So each action  *)
(* below is the code a coroutine runs from one suspension to the next, and *)
(* the lock, which no coroutine holds across a suspension, is free         *)
(* whenever a coroutine reaches it.                                        *)
(*                                                                         *)
(* Time is counted in minutes: ttl_minutes is a number of minutes and the  *)
(* cleanup loop sleeps 60 seconds.                                         *)
(***************************************************************************)
EXTENDS Integers, Sequences, FiniteSets, TLC

\* ------------------------------------------------------------------ bounds
NTasks == 2         \* chat handlers that can be suspended at a time
MaxReq == 3         \* requests served in one run
MaxTime == 2        \* the clock runs 0..MaxTime
MaxStarts == 1      \* calls of start() in one run

\* --------------------------------------------------------------- constants
SweepInterval == 1  \* asyncio.sleep(60): one minute

\* ttl_minutes and max_agents are constructor arguments.
TtlValues == {1}
MaxAgentsValues == {0, 1, 2}

\* Strings are sequences of characters, so that joining with ":" and
\* splitting at ":" are computed as Python computes them.
SessionIds == {<<"a">>, <<"a", ":", "b">>}
Providers == {<<"c">>, <<"b", ":", "c">>}

Tasks == 1 .. NTasks
\* cleanup tasks: those that start() creates in a run, and one that a
\* start() before the run has created
EarlierTask == MaxStarts + 1
Reapers == 1 .. EarlierTask

\* Owners of self._lock: nobody, a request handler, a cleanup task.
Free == <<>>
TaskId(t) == <<"task", t>>
ReaperId(r) == <<"cleanup", r>>

\* An Agent object: id is its identity (the n-th object _create_agent made),
\* session_id and provider are the arguments it was made from.  NoAgent is
\* None.
NoAgent == [id |-> 0, session_id |-> <<>>, provider |-> <<>>]

VARIABLES
    _agents,        \* self._agents: dict, in insertion order, of
                    \*   [key, agent, last_access]
    _ttl,           \* self._ttl
    _max_agents,    \* self._max_agents
    _lock,          \* self._lock: its owner, or Free
    _cleanup_task,  \* self._cleanup_task: a cleanup task, or 0 for None
    now,            \* datetime.now()
    pc,             \* chat handler t: "idle", or "invoke" while it awaits
                    \*   agent.invoke_async
    req,            \* chat handler t: the request it serves
    agent,          \* chat handler t: chat's local variable `agent`
    rpc,            \* cleanup task r: where it is suspended
    wake,           \* cleanup task r: when its sleep ends
    swept,          \* cleanup task r: whether it is alive and has swept
    apc,            \* the caller of start() and stop(): where it is suspended
    n_req,          \* requests begun
    n_starts,       \* cleanup tasks created
    n_created,      \* Agent objects _create_agent has made
    ev              \* what the last step did to the pool

vars == <<_agents, _ttl, _max_agents, _lock, _cleanup_task, now, pc, req,
          agent, rpc, wake, swept, apc, n_req, n_starts, n_created, ev>>

\* ------------------------------------------------------------ dict helpers
\* f"{session_id}:{provider}"
cache_key(session_id, provider) == session_id \o <<":">> \o provider

CacheKeys == {cache_key(s, p) : s \in SessionIds, p \in Providers}

\* d.keys()
Keys(d) == {d[i].key : i \in DOMAIN d}

\* d.items()
Items(d) == {d[i] : i \in DOMAIN d}

\* key in d
Contains(d, key) == key \in Keys(d)

\* d[key]
GetItem(d, key) == d[CHOOSE i \in DOMAIN d : d[i].key = key]

\* d[key] = (a, t): an existing key keeps its place, a new one goes last
SetItem(d, key, a, t) ==
    LET e == [key |-> key, agent |-> a, last_access |-> t] IN
    IF Contains(d, key)
    THEN [i \in DOMAIN d |-> IF d[i].key = key THEN e ELSE d[i]]
    ELSE Append(d, e)

\* key.split(":")[0]
RECURSIVE FirstSegment(_)
FirstSegment(s) ==
    IF s = <<>> \/ Head(s) = ":" THEN <<>>
    ELSE <<Head(s)>> \o FirstSegment(Tail(s))

\* a deletion that takes every entry of the key's session with it
DelItem_session(d, key) ==
    SelectSeq(d, LAMBDA e : FirstSegment(e.key) # FirstSegment(key))

\* del d[key]
DelItem(d, key) == SelectSeq(d, LAMBDA e : e.key # key)


\* ------------------------------------------------------------ AgentPool
\* Agent(...) in _create_agent: a new object on every call
_create_agent(session_id, provider) ==
    [id |-> n_created + 1, session_id |-> session_id, provider |-> provider]

\* a get() that never finds its key
CacheHit_never(d, key) == FALSE

\* a get() that finds its key only while no handler is using a handle
CacheHit_unused(d, key) ==
    Contains(d, key) /\ \A t \in Tasks : pc[t] # "invoke"

\* a get() that finds its key only if the entry has not outlived the ttl
CacheHit_fresh(d, key) ==
    Contains(d, key) /\ now - GetItem(d, key).last_access <= _ttl

\* `if cache_key in self._agents` in get
CacheHit(d, key) == Contains(d, key)

\* a capacity test that lets the pool grow one entry past max_agents
AtCapacity_after(d) == Len(d) > _max_agents

\* `if len(self._agents) >= self._max_agents` in get
AtCapacity(d) == Len(d) >= _max_agents

\* min(self._agents.keys(), key=lambda k: self._agents[k][1]): the first
\* key, in the dict's order, among those with the smallest last access
OldestKey(d) ==
    LET i == CHOOSE i \in DOMAIN d :
                 /\ \A j \in DOMAIN d : d[i].last_access <= d[j].last_access
                 /\ \A j \in 1 .. (i - 1) : d[j].last_access > d[i].last_access
    IN d[i].key

\* an eviction that deletes nothing
_evict_none(d) == d

\* an eviction of the entry that was inserted first
_evict_first(d) == IF d = <<>> THEN d ELSE Tail(d)

_evict_oldest(d) == IF d = <<>> THEN d ELSE DelItem(d, OldestKey(d))

\* a sweep that lets an entry idle one time unit longer
IsExpired_late(e) == now - e.last_access > _ttl + 1

\* a sweep that removes an entry already when it has been idle for ttl
IsExpired_early(e) == now - e.last_access >= _ttl

\* `now - last_access > self._ttl` in _cleanup_expired
IsExpired(e) == now - e.last_access > _ttl

\* the list `expired` of _cleanup_expired, as a set
Expired(d) == {d[i].key : i \in {j \in DOMAIN d : IsExpired(d[j])}}

\* a sweep that stops after the first expired key
Swept_first(d) ==
    IF Expired(d) = {} THEN d
    ELSE DelItem(d, d[CHOOSE i \in DOMAIN d :
                          /\ IsExpired(d[i])
                          /\ \A j \in 1 .. (i - 1) : ~IsExpired(d[j])].key)

\* the dict after `for key in expired: del self._agents[key]`
Swept(d) == SelectSeq(d, LAMBDA e : e.key \notin Expired(d))

\* a remove() that deletes an entry only when it has expired
RemoveHit_expired(d, key) ==
    Contains(d, key) /\ now - GetItem(d, key).last_access > _ttl

\* `if cache_key in self._agents` in remove
RemoveHit(d, key) == Contains(d, key)

\* a lock that stays with the owner who left the block
Released_never(owner) == owner

\* `async with self._lock`: the lock is acquired at once when nobody holds
\* it, and released when the block is left, by return or by exception.
CanAcquire == _lock = Free
Released(owner) == Free

\* --------------------------------------------------------------- records
NoReq == [op |-> "none", session_id |-> <<>>, provider |-> <<>>]
\* ev, what the last step did to self._agents: op is the operation; key
\* its cache key; hit whether the key was present; stale whether a get()
\* found the key with an entry idle for longer than the ttl; factory whether
\* _create_agent was called; ok whether no exception was raised; removed
\* the entries it deleted; locked whether it ran with self._lock held (by
\* itself inside `async with self._lock`, or by anyone when it takes no
\* lock); size len(self._agents) before it; status and sessions the
\* response sent.
NoEv == [op |-> "none", key |-> <<>>, hit |-> FALSE, stale |-> FALSE,
         factory |-> FALSE, ok |-> TRUE, removed |-> {}, locked |-> FALSE,
         size |-> 0, status |-> 0, sessions |-> <<>>]

ReqKey(t) == cache_key(req[t].session_id, req[t].provider)

\* a chat() that answers 200 whatever happened
chat_status_ok(ok) == 200

\* chat(): the ChatResponse when the try block ends normally, and
\* HTTPException(status_code=500) when anything in it raised
chat_status(ok) == IF ok THEN 200 ELSE 500

Init ==
    /\ _agents = <<>>
    /\ _ttl \in TtlValues
    /\ _max_agents \in MaxAgentsValues
    /\ _lock = Free
    /\ _cleanup_task = 0
    /\ now = 0
    /\ pc = [t \in Tasks |-> "idle"]
    /\ req = [t \in Tasks |-> NoReq]
    /\ agent = [t \in Tasks |-> NoAgent]
    /\ rpc = [r \in Reapers |-> "unborn"]
    /\ wake = [r \in Reapers |-> 0]
    /\ swept = [r \in Reapers |-> FALSE]
    /\ apc = "idle"
    /\ n_req = 0
    /\ n_starts = 0
    /\ n_created = 0
    /\ ev = NoEv

\* The clock advances.
Tick ==
    /\ now < MaxTime
    /\ now' = now + 1
    /\ ev' = NoEv
    /\ UNCHANGED <<_agents, _ttl, _max_agents, _lock, _cleanup_task, pc, req,
                   agent, rpc, wake, apc, n_req, n_starts, n_created, swept>>

\* ------------------------------------------------------------- POST /chat
\* chat(), to its first suspension: agent_pool.get() computes the cache
\* key, takes the lock and runs the body of `async with self._lock` to its
\* return or to the exception of _create_agent.  After a return chat()
\* awaits invoke_async; the exception becomes the 500 response.
\* factory_ok: whether _create_agent returns (it raises otherwise).
get(t, session_id, provider, factory_ok) ==
    /\ pc[t] = "idle"
    /\ n_req < MaxReq
    /\ n_req' = n_req + 1
    /\ CanAcquire
    /\ _lock' = Released(TaskId(t))
    /\ LET key == cache_key(session_id, provider)
           r == [op |-> "chat", session_id |-> session_id,
                 provider |-> provider]
       IN
       IF CacheHit(_agents, key)
       THEN LET a == GetItem(_agents, key).agent IN
            /\ factory_ok
            /\ _agents' = SetItem(_agents, key, a, now)
            /\ agent' = [agent EXCEPT ![t] = a]
            /\ pc' = [pc EXCEPT ![t] = "invoke"]
            /\ req' = [req EXCEPT ![t] = r]
            /\ ev' = [NoEv EXCEPT !.op = "get", !.key = key,
                                  !.hit = Contains(_agents, key),
                                  !.stale = IsExpired(GetItem(_agents, key)),
                                  !.locked = TRUE, !.size = Len(_agents)]
            /\ UNCHANGED n_created
       ELSE LET d == IF AtCapacity(_agents) THEN _evict_oldest(_agents)
                     ELSE _agents
                a == _create_agent(session_id, provider)
            IN
            /\ IF factory_ok
               THEN /\ n_created' = n_created + 1
                    /\ _agents' = SetItem(d, key, a, now)
                    /\ agent' = [agent EXCEPT ![t] = a]
                    /\ pc' = [pc EXCEPT ![t] = "invoke"]
                    /\ req' = [req EXCEPT ![t] = r]
                    /\ ev' = [NoEv EXCEPT !.op = "get", !.key = key,
                                          !.hit = Contains(_agents, key),
                                          !.factory = TRUE,
                                          !.removed = Items(_agents) \ Items(d),
                                          !.locked = TRUE,
                                          !.size = Len(_agents)]
               ELSE /\ _agents' = d
                    /\ ev' = [NoEv EXCEPT !.op = "get", !.key = key,
                                          !.hit = Contains(_agents, key),
                                          !.factory = TRUE, !.ok = FALSE,
                                          !.removed = Items(_agents) \ Items(d),
                                          !.locked = TRUE,
                                          !.size = Len(_agents),
                                          !.status = chat_status(FALSE)]
                    /\ UNCHANGED <<pc, req, agent, n_created>>
    /\ UNCHANGED <<_ttl, _max_agents, _cleanup_task, now, rpc, wake, apc,
                   n_starts, swept>>

\* chat(): `await agent.invoke_async(...)` ends, with a result or an
\* exception, and chat() responds.
\* ok: whether the rest of the try block ends without an exception.
chat_invoke(t, ok) ==
    /\ pc[t] = "invoke"
    /\ pc' = [pc EXCEPT ![t] = "idle"]
    /\ agent' = [agent EXCEPT ![t] = NoAgent]
    /\ req' = [req EXCEPT ![t] = NoReq]
    /\ ev' = [NoEv EXCEPT !.op = "invoke", !.ok = ok,
                          !.status = chat_status(ok)]
    /\ UNCHANGED <<_agents, _ttl, _max_agents, _lock, _cleanup_task, now,
                   rpc, wake, apc, n_req, n_starts, n_created, swept>>

\* ------------------------------------------------- DELETE /session/{id}
\* delete_session(): agent_pool.remove() computes the cache key, takes the
\* lock and runs the body of `async with self._lock`; then the response
\* {"status": "removed"}.  Nothing in it suspends.
remove(session_id, provider) ==
    /\ n_req < MaxReq
    /\ n_req' = n_req + 1
    /\ CanAcquire
    /\ _lock' = Released(<<"delete">>)
    /\ LET key == cache_key(session_id, provider)
           d == IF RemoveHit(_agents, key) THEN DelItem(_agents, key)
                ELSE _agents
       IN
       /\ _agents' = d
       /\ ev' = [NoEv EXCEPT !.op = "remove", !.key = key,
                             !.hit = Contains(_agents, key),
                             !.removed = Items(_agents) \ Items(d),
                             !.locked = TRUE,
                             !.size = Len(_agents), !.status = 200]
    /\ UNCHANGED <<_ttl, _max_agents, _cleanup_task, now, pc, req, agent,
                   rpc, wake, apc, n_starts, n_created, swept>>

\* ------------------------------------------------------------ GET /health
\* active_sessions: len(self._agents)
active_sessions == Len(_agents)

\* session_ids: [key.split(":")[0] for key in self._agents.keys()]
session_ids == [i \in DOMAIN _agents |-> FirstSegment(_agents[i].key)]

\* health() reads both properties and responds; it awaits nothing and
\* takes no lock.
health ==
    /\ n_req < MaxReq
    /\ n_req' = n_req + 1
    /\ ev' = [NoEv EXCEPT !.op = "health", !.locked = ~CanAcquire,
                          !.size = active_sessions, !.status = 200,
                          !.sessions = session_ids]
    /\ UNCHANGED <<_agents, _ttl, _max_agents, _lock, _cleanup_task, now, pc,
                   req, agent, rpc, wake, apc, n_starts, n_created, swept>>

\* ---------------------------------------------------------- cleanup task
\* _cleanup_loop(): asyncio.sleep(60) ends and _cleanup_expired() runs: the
\* lock, the body of `async with self._lock`; then the loop sleeps again.
_cleanup_expired(r) ==
    /\ rpc[r] = "sleep"
    /\ now >= wake[r]
    /\ CanAcquire
    /\ _lock' = Released(ReaperId(r))
    /\ _agents' = Swept(_agents)
    /\ ev' = [NoEv EXCEPT !.op = "sweep",
                          !.removed = Items(_agents) \ Items(Swept(_agents)),
                          !.locked = TRUE, !.size = Len(_agents)]
    /\ wake' = [wake EXCEPT ![r] = now + SweepInterval]
    /\ swept' = [swept EXCEPT ![r] = TRUE]
    /\ UNCHANGED <<_ttl, _max_agents, _cleanup_task, now, pc, req, agent,
                   rpc, apc, n_req, n_starts, n_created>>

\* ------------------------------------------------------- start and stop
\* start(): asyncio.create_task(self._cleanup_loop()); the task begins
\* with its first sleep.
start ==
    /\ apc = "idle"
    /\ n_starts < MaxStarts
    /\ n_starts' = n_starts + 1
    /\ _cleanup_task' = n_starts + 1
    /\ rpc' = [rpc EXCEPT ![n_starts + 1] = "sleep"]
    /\ wake' = [wake EXCEPT ![n_starts + 1] = now + SweepInterval]
    /\ swept' = [swept EXCEPT ![n_starts + 1] = FALSE]
    /\ ev' = NoEv
    /\ UNCHANGED <<_agents, _ttl, _max_agents, _lock, now, pc, req, agent,
                   apc, n_req, n_created>>

\* task.cancel(): CancelledError is raised in the task at the await where
\* it is suspended, asyncio.sleep(60); nothing catches it and the task
\* ends.  Cancelling a task that has ended does nothing.
Cancel(state) == IF state = "sleep" THEN "cancelled" ELSE state

\* `await self._cleanup_task` on a task that has ended: a cancelled task
\* raises CancelledError in the awaiter, a task that was never created is
\* not awaited at all.
AwaitTask(state) == IF state = "cancelled" THEN "CancelledError" ELSE "none"

\* an await in stop() that lets CancelledError through
Swallowed_none(exc) == exc = "none"

\* `try: await self._cleanup_task / except asyncio.CancelledError: pass`:
\* whether stop() goes on to self._agents.clear()
Swallowed(exc) == exc \in {"none", "CancelledError"}

\* the end of stop(): self._agents.clear() and the return, or the
\* exception that leaves stop() before the clear
stop_end(exc) ==
    IF Swallowed(exc)
    THEN /\ _agents' = <<>>
         /\ ev' = [NoEv EXCEPT !.op = "stop", !.removed = Items(_agents),
                               !.locked = ~CanAcquire,
                               !.size = Len(_agents)]
    ELSE /\ UNCHANGED _agents
         /\ ev' = [NoEv EXCEPT !.op = "stop", !.ok = FALSE,
                               !.size = Len(_agents)]

\* stop(), to its first suspension: with no task, or a task that has ended,
\* it runs through to self._agents.clear(); otherwise it cancels the task
\* and awaits it.
stop_begin ==
    /\ apc = "idle"
    /\ IF _cleanup_task = 0
       THEN /\ stop_end("none")
            /\ UNCHANGED <<apc, rpc, wake, swept>>
       ELSE IF rpc[_cleanup_task] = "cancelled"
       THEN /\ stop_end(AwaitTask(rpc[_cleanup_task]))
            /\ UNCHANGED <<apc, rpc, wake, swept>>
       ELSE /\ rpc' = [rpc EXCEPT ![_cleanup_task] = Cancel(@)]
            /\ wake' = [wake EXCEPT ![_cleanup_task] = 0]
            /\ swept' = [swept EXCEPT ![_cleanup_task] = FALSE]
            /\ apc' = "stop_await"
            /\ ev' = NoEv
            /\ UNCHANGED _agents
    /\ UNCHANGED <<_ttl, _max_agents, _lock, _cleanup_task, now, pc, req,
                   agent, n_req, n_starts, n_created>>

\* stop(): `await self._cleanup_task` ends with CancelledError, which is
\* swallowed; self._agents.clear().
stop_clear ==
    /\ apc = "stop_await"
    /\ rpc[_cleanup_task] = "cancelled"
    /\ stop_end(AwaitTask(rpc[_cleanup_task]))
    /\ apc' = "idle"
    /\ UNCHANGED <<_ttl, _max_agents, _lock, _cleanup_task, now, pc, req,
                   agent, rpc, wake, n_req, n_starts, n_created, swept>>

\* ------------------------------------------------------------------ Spec
Next ==
    \/ Tick
    \/ \E t \in Tasks, s \in SessionIds, p \in Providers,
          factory_ok \in BOOLEAN : get(t, s, p, factory_ok)
    \/ \E t \in Tasks, ok \in BOOLEAN : chat_invoke(t, ok)
    \/ \E s \in SessionIds, p \in Providers : remove(s, p)
    \/ health
    \/ \E r \in Reapers : _cleanup_expired(r)
    \/ start
    \/ stop_begin
    \/ stop_clear

Spec == Init /\ [][Next]_vars

\* A pool filled to its capacity by chats that have all ended at time 0:
\* get("a", "c"), then with max_agents = 2 also get("a:b", "c").  From here
\* MaxReq further requests reach the evictions that follow a refresh.
FullPool(n) ==
    LET first == [key |-> cache_key(<<"a">>, <<"c">>),
                  agent |-> [id |-> 1, session_id |-> <<"a">>,
                             provider |-> <<"c">>],
                  last_access |-> 0]
        second == [key |-> cache_key(<<"a", ":", "b">>, <<"c">>),
                   agent |-> [id |-> 2, session_id |-> <<"a", ":", "b">>,
                              provider |-> <<"c">>],
                   last_access |-> 0]
    IN IF n = 1 THEN <<first>> ELSE <<first, second>>

InitFull ==
    /\ _max_agents \in {1, 2}
    /\ _agents = FullPool(_max_agents)
    /\ n_created = _max_agents
    /\ _ttl \in TtlValues
    /\ _lock = Free
    /\ _cleanup_task = 0
    /\ now = 0
    /\ pc = [t \in Tasks |-> "idle"]
    /\ req = [t \in Tasks |-> NoReq]
    /\ agent = [t \in Tasks |-> NoAgent]
    /\ rpc = [r \in Reapers |-> "unborn"]
    /\ wake = [r \in Reapers |-> 0]
    /\ swept = [r \in Reapers |-> FALSE]
    /\ apc = "idle"
    /\ n_req = 0
    /\ n_starts = 0
    /\ ev = NoEv

SpecFull == InitFull /\ [][Next]_vars

\* A pool on which start() has been called once, at time 0: its cleanup
\* task is in its first sleep.  A start() in the run is then a second one.
InitStarted ==
    /\ _agents = <<>>
    /\ _ttl \in TtlValues
    /\ _max_agents \in MaxAgentsValues
    /\ _lock = Free
    /\ _cleanup_task = EarlierTask
    /\ now = 0
    /\ pc = [t \in Tasks |-> "idle"]
    /\ req = [t \in Tasks |-> NoReq]
    /\ agent = [t \in Tasks |-> NoAgent]
    /\ rpc = [r \in Reapers |-> IF r = EarlierTask THEN "sleep" ELSE "unborn"]
    /\ wake = [r \in Reapers |-> IF r = EarlierTask THEN SweepInterval ELSE 0]
    /\ swept = [r \in Reapers |-> FALSE]
    /\ apc = "idle"
    /\ n_req = 0
    /\ n_starts = 0
    /\ n_created = 0
    /\ ev = NoEv

SpecStarted == InitStarted /\ [][Next]_vars

\* The timed program: the event loop runs a cleanup task as soon as its
\* asyncio.sleep(60) has ended, so the clock does not pass the end of a
\* sleep before the sweep has run.  ttl_minutes = 0 is included, for which
\* ttl + one sweep interval lies within the clock's range; max_agents plays
\* no part in the timing.
TimedTtlValues == {0, 1}
TimedMaxAgentsValues == {2}

Due(r) == rpc[r] = "sleep" /\ now >= wake[r]

TickTimed ==
    /\ \A r \in Reapers : ~Due(r)
    /\ Tick

InitTimed ==
    /\ _agents = <<>>
    /\ _ttl \in TimedTtlValues
    /\ _max_agents \in TimedMaxAgentsValues
    /\ _lock = Free
    /\ _cleanup_task = 0
    /\ now = 0
    /\ pc = [t \in Tasks |-> "idle"]
    /\ req = [t \in Tasks |-> NoReq]
    /\ agent = [t \in Tasks |-> NoAgent]
    /\ rpc = [r \in Reapers |-> "unborn"]
    /\ wake = [r \in Reapers |-> 0]
    /\ swept = [r \in Reapers |-> FALSE]
    /\ apc = "idle"
    /\ n_req = 0
    /\ n_starts = 0
    /\ n_created = 0
    /\ ev = NoEv

NextTimed ==
    \/ TickTimed
    \/ \E t \in Tasks, s \in SessionIds, p \in Providers,
          factory_ok \in BOOLEAN : get(t, s, p, factory_ok)
    \/ \E t \in Tasks, ok \in BOOLEAN : chat_invoke(t, ok)
    \/ \E s \in SessionIds, p \in Providers : remove(s, p)
    \/ health
    \/ \E r \in Reapers : _cleanup_expired(r)
    \/ start
    \/ stop_begin
    \/ stop_clear

SpecTimed == InitTimed /\ [][NextTimed]_vars

\* ---------------------------------------------------------------- claims
Max(a, b) == IF a >= b THEN a ELSE b

\* the chat handlers that the last step suspended at invoke_async
Returned == {t \in Tasks : pc[t] = "idle" /\ pc'[t] = "invoke"}

\* C1, as stated: right after any get() the pool holds at most max_agents
\* entries, for every value of max_agents.
C1_GetWithinCapacity == ev.op = "get" => Len(_agents) <= _max_agents

\* C1, amended: right after any get() the pool holds at most max_agents
\* entries when max_agents >= 1, and at most one entry when max_agents <= 0.
C1_GetWithinCapacityOrOne ==
    ev.op = "get" => Len(_agents) <= Max(_max_agents, 1)

\* a get() has just evicted an entry and inserted one, at capacity
C1_Witness ==
    /\ ev.op = "get"
    /\ ev.ok
    /\ ev.removed # {}
    /\ _max_agents >= 1
    /\ Len(_agents) = _max_agents

\* C2: a get() in which _create_agent raises leaves self._agents exactly as
\* it was, also when the pool was at capacity.
C2_FailedGetLeavesPool ==
    [][(ev'.op = "get" /\ ~ev'.ok) => _agents' = _agents]_vars

\* C3: a get(K) that finds K in the pool returns the handle stored for K
\* without calling _create_agent and without changing the number of
\* entries; the handle stored for K is the one the get(K) before it
\* returned, because every get() returns the handle it leaves stored, and
\* no step changes the handle of a key that stays in the pool.
C3_Reuse ==
    [][/\ (ev'.op = "get" /\ ev'.ok) =>
              /\ Returned # {}
              /\ \A t \in Returned :
                     agent'[t] = GetItem(_agents', ev'.key).agent
       /\ \A k \in Keys(_agents) \cap Keys(_agents') :
              GetItem(_agents', k).agent = GetItem(_agents, k).agent
       /\ (ev'.op = "get" /\ ev'.key \in Keys(_agents)) =>
              /\ ~ev'.factory
              /\ n_created' = n_created
              /\ Len(_agents') = Len(_agents)
      ]_vars

\* a get() has just returned a handle that an earlier get() made
C3_Witness ==
    /\ ev.op = "get"
    /\ ev.hit
    /\ ev.ok
    /\ \E t \in Tasks :
           /\ pc[t] = "invoke"
           /\ ReqKey(t) = ev.key
           /\ agent[t] = GetItem(_agents, ev.key).agent

\* the entries that were in the pool before the last step
Before == ev.removed \cup {e \in Items(_agents) : e.key # ev.key}

\* C4: with max_agents = C >= 1 and C entries present, a get() of a key
\* that is not in the pool removes exactly one entry, one whose last_access
\* is smallest among the entries, and leaves at most C entries; when its
\* _create_agent returns, the new key is in the pool with the C - 1 others.
C4_EvictsLeastRecentlyAccessed ==
    (/\ ev.op = "get"
     /\ ~ev.hit
     /\ _max_agents >= 1
     /\ ev.size = _max_agents)
    => /\ Cardinality(Before) = ev.size
       /\ Cardinality(ev.removed) = 1
       /\ \A x \in ev.removed : \A e \in Before :
              x.last_access <= e.last_access
       /\ Len(_agents) <= _max_agents
       /\ ev.ok => /\ Contains(_agents, ev.key)
                   /\ Len(_agents) = Cardinality(Before \ ev.removed) + 1

\* a get() has just evicted an entry that was inserted after one it kept:
\* the kept one was refreshed by a later get()
C4_Witness ==
    /\ ev.op = "get"
    /\ ev.ok
    /\ ~ev.hit
    /\ ev.size = _max_agents
    /\ \E x \in ev.removed : \E e \in Items(_agents) :
           /\ e.key # ev.key
           /\ e.agent.id < x.agent.id
           /\ e.last_access > x.last_access

\* C5: when chat handlers call get(K) for the same key K while K's entry is
\* not removed in between, _create_agent runs once and every handler gets
\* the same handle: a get(K) that runs while another handler is suspended
\* with the handle the pool still stores for K returns that handle and
\* does not call _create_agent.  No handler is ever suspended while it
\* holds the lock, so none sees the pool between get()'s check and its
\* insertion.
C5_OneConstructionPerKey ==
    /\ [](_lock = Free)
    /\ [][\A t \in Returned : \A u \in Tasks \ {t} :
              (/\ pc[u] = "invoke"
               /\ ReqKey(u) = ev'.key
               /\ Contains(_agents, ev'.key)
               /\ GetItem(_agents, ev'.key).agent = agent[u])
              => /\ agent'[t] = agent[u]
                 /\ ~ev'.factory
                 /\ n_created' = n_created
         ]_vars

\* two handlers are suspended with the same handle, made once
C5_Witness ==
    \E t \in Tasks : \E u \in Tasks \ {t} :
        /\ pc[t] = "invoke"
        /\ pc[u] = "invoke"
        /\ ReqKey(t) = ReqKey(u)
        /\ agent[t] = agent[u]
        /\ agent[t] # NoAgent

\* the handles of key k that are stored in the pool or in use by a handler
\* suspended in invoke_async
LiveHandles(k) ==
    {e.agent : e \in {x \in Items(_agents) : x.key = k}}
    \cup {agent[t] : t \in {u \in Tasks : pc[u] = "invoke" /\ ReqKey(u) = k}}

\* C6: at any time there is at most one live handle per key.
C6_OneLiveHandlePerKey ==
    \A k \in CacheKeys : Cardinality(LiveHandles(k)) <= 1

\* C7: every operation that reads or writes self._agents does so while
\* holding self._lock.
C7_AccessUnderLock ==
    ev.op \in {"get", "remove", "sweep", "stop", "health"} => ev.locked

\* C8: every get() of K that returns leaves K's last_access at the time of
\* the call, and only a get() of K changes it; a sweep removes every entry
\* with now - last_access > ttl, so after a sweep more than ttl after the
\* last get(K), K is not in the pool; and a get() of a key that is not in
\* the pool calls _create_agent.
C8_SweepRemovesExpired ==
    /\ []((ev.op = "get" /\ ev.ok) =>
              GetItem(_agents, ev.key).last_access = now)
    /\ [](ev.op = "sweep" =>
              \A e \in Items(_agents) : now - e.last_access <= _ttl)
    /\ []((ev.op = "get" /\ ~ev.hit) => ev.factory)
    /\ [][\A k \in Keys(_agents) \cap Keys(_agents') :
              (ev'.op = "get" /\ ev'.key = k)
              \/ GetItem(_agents', k).last_access
                     = GetItem(_agents, k).last_access
         ]_vars

\* a sweep has just removed an entry
C8_Witness ==
    /\ ev.op = "sweep"
    /\ ev.removed # {}

\* C9: a sweep removes no entry whose last get() was at most ttl before the
\* sweep, however long ago the entry was created, and leaves its handle and
\* its timestamp as they were; a get() that finds the key sets its
\* last_access to the time of the call.
C9_SweepKeepsFresh ==
    /\ []((ev.op = "get" /\ ev.hit /\ ev.ok) =>
              GetItem(_agents, ev.key).last_access = now)
    /\ [][ev'.op = "sweep" =>
              \A e \in Items(_agents) :
                  now - e.last_access <= _ttl => e \in Items(_agents')
         ]_vars

\* a sweep has just removed an entry and kept one that was created before
\* it, more than ttl ago, and has been refreshed since
C9_Witness ==
    /\ ev.op = "sweep"
    /\ \E x \in ev.removed : \E e \in Items(_agents) :
           /\ e.agent.id < x.agent.id
           /\ now - e.last_access <= _ttl

\* C10: remove(K) leaves no entry for K, whatever its timestamp; a key that
\* is not in the pool comes into it only by a get() of it that calls
\* _create_agent and returns the Agent object just made, which no earlier
\* call can have returned.
C10_RemoveThenGetConstructs ==
    /\ [](ev.op = "remove" => ~Contains(_agents, ev.key))
    /\ [][\A k \in Keys(_agents') \ Keys(_agents) :
              /\ ev'.op = "get"
              /\ ev'.key = k
              /\ ev'.factory
              /\ n_created' = n_created + 1
              /\ GetItem(_agents', k).agent.id = n_created'
              /\ \A e \in Items(_agents) : e.agent.id < n_created'
              /\ \A t \in Tasks : agent[t].id < n_created'
              /\ \A t \in Returned : agent'[t] = GetItem(_agents', k).agent
         ]_vars

\* a remove() has just deleted an entry that had not expired
C10_Witness ==
    /\ ev.op = "remove"
    /\ ev.hit
    /\ \E x \in ev.removed : now - x.last_access <= _ttl

\* C11: stop() raises nothing and the map is empty when it returns, whether
\* start() was called before it (the sweeper is cancelled in its sleep, the
\* only place where it is ever suspended, and the CancelledError of the
\* await is swallowed) or never; and a stop() that awaits the task always
\* finds it ended.
C11_StopClears ==
    /\ ev.op = "stop" => /\ ev.ok
                         /\ _agents = <<>>
                         /\ apc = "idle"
    /\ apc = "stop_await" => /\ _cleanup_task # 0
                             /\ rpc[_cleanup_task] = "cancelled"

\* a stop() after a start() has just returned, having cancelled the
\* sweeper and cleared a map that held entries
C11_Witness ==
    /\ ev.op = "stop"
    /\ ev.ok
    /\ ev.removed # {}
    /\ _cleanup_task # 0
    /\ rpc[_cleanup_task] = "cancelled"
    /\ _agents = <<>>

\* C12: two get() calls with different (session_id, provider) pairs never
\* share an entry or a handle, also when the identifiers contain ':': the
\* handle a get() returns was made by a get() of the same pair.
C12_KeyIdentifiesPair ==
    \A t \in Tasks :
        pc[t] = "invoke" => /\ agent[t].session_id = req[t].session_id
                            /\ agent[t].provider = req[t].provider

\* C13: the health response reports the number of entries and lists, once
\* per entry and in the map's order, the session identifier that was passed
\* to the get() which created the entry.
C13_HealthListsSessions ==
    ev.op = "health" =>
        /\ ev.size = Len(_agents)
        /\ ev.sessions = [i \in DOMAIN _agents |-> _agents[i].agent.session_id]

C15_ChatGetThenInvoke ==
    /\ [](ev.op = "get" =>
              /\ ~ev.ok => (ev.factory /\ ev.status = 500)
              /\ (~ev.hit /\ ev.ok) => Contains(_agents, ev.key))
    /\ [](ev.op = "invoke" => ev.status = IF ev.ok THEN 200 ELSE 500)
    /\ [][\A t \in Tasks :
              /\ (pc[t] = "idle" /\ pc'[t] = "invoke") =>
                     /\ ev'.op = "get"
                     /\ ev'.ok
                     /\ ev'.key = cache_key(req'[t].session_id,
                                            req'[t].provider)
                     /\ agent'[t] = GetItem(_agents', ev'.key).agent
                     /\ n_req' = n_req + 1
              /\ (pc[t] = "invoke" /\ pc'[t] = "invoke") =>
                     /\ agent'[t] = agent[t]
                     /\ req'[t] = req[t]
              /\ (pc[t] = "invoke" /\ pc'[t] = "idle") =>
                     /\ ev'.op = "invoke"
                     /\ agent'[t] = NoAgent
                     /\ UNCHANGED <<_agents, n_req, n_created>>
              /\ (ev'.op = "get" /\ ~ev'.ok) =>
                     UNCHANGED <<pc, agent, req>>
         ]_vars

\* a chat request has just answered 500 because the invocation raised
C15_Witness ==
    /\ ev.op = "invoke"
    /\ ~ev.ok
    /\ ev.status = 500
    /\ n_created >= 1

\* stop() has returned and start() has not been called since
Stopped ==
    /\ apc = "idle"
    /\ _cleanup_task # 0
    /\ rpc[_cleanup_task] = "cancelled"

\* C16: after stop() has returned no sweeper started by an earlier start()
\* is left to sweep again, also when start() was called more than once.
C16_InertAfterStop == Stopped => \A r \in Reapers : rpc[r] # "sleep"

\* start() has been called and stop() not since
Running == _cleanup_task # 0 /\ rpc[_cleanup_task] = "sleep"

\* the longest time an entry has gone without a get()
Idle(e) == now - e.last_access

\* C17, as stated: while the sweeper is running no entry has been idle for
\* more than ttl plus one sweep interval.
C17_BoundedOverstay ==
    Running => \A e \in Items(_agents) : Idle(e) <= _ttl + SweepInterval

\* C17, amended: while the sweeper is running and has swept at least once
\* since its start(), no entry has been idle for more than ttl plus one
\* sweep interval; before its first sweep an entry that was in the pool
\* when start() was called can have been idle for any time.
C17_BoundedOverstayOnceSwept ==
    (Running /\ swept[_cleanup_task]) =>
        \A e \in Items(_agents) : Idle(e) <= _ttl + SweepInterval

\* the sweeper is running, has swept, and an entry has been idle for ttl
\* plus a sweep interval: the sweep that removes it is due
C17_Witness ==
    /\ Running
    /\ swept[_cleanup_task]
    /\ Due(_cleanup_task)
    /\ \E e \in Items(_agents) : Idle(e) = _ttl + SweepInterval

\* C18: in every state, for every max_agents, the pool holds at most
\* max(max_agents, 1) entries; with max_agents <= 0 a get() of a key that is
\* not in the pool, whose _create_agent returns, leaves exactly that key in
\* the pool: on an empty map the eviction deletes nothing, on a map of one
\* entry it deletes that entry before the insertion.
C18_AtMostCapacityOrOne ==
    /\ Len(_agents) <= Max(_max_agents, 1)
    /\ (/\ _max_agents <= 0
        /\ ev.op = "get"
        /\ ~ev.hit
        /\ ev.ok)
       => /\ Keys(_agents) = {ev.key}
          /\ Len(_agents) = 1
          /\ Cardinality(ev.removed) = ev.size

\* with max_agents <= 0 a get() of a new key has just evicted the only
\* entry and inserted its own
C18_Witness ==
    /\ _max_agents <= 0
    /\ ev.op = "get"
    /\ ev.ok
    /\ ev.removed # {}
    /\ Keys(_agents) = {ev.key}

\* C19: a get(K) that finds K's entry idle for longer than the ttl, no
\* sweep having removed it yet, raises nothing, does not call
\* _create_agent, returns the handle stored for K and sets K's last_access
\* to now; and a sweep at that time keeps the entry.
C19_GetIgnoresTtl ==
    /\ [][(/\ ev'.op = "get"
           /\ Contains(_agents, ev'.key)
           /\ Idle(GetItem(_agents, ev'.key)) > _ttl)
          => /\ ev'.ok
             /\ ~ev'.factory
             /\ n_created' = n_created
             /\ Contains(_agents', ev'.key)
             /\ GetItem(_agents', ev'.key).agent
                    = GetItem(_agents, ev'.key).agent
             /\ GetItem(_agents', ev'.key).last_access = now
             /\ Returned # {}
             /\ \A t \in Returned :
                    agent'[t] = GetItem(_agents, ev'.key).agent
         ]_vars
    /\ [][ev'.op = "sweep" =>
              \A e \in Items(_agents) :
                  e.last_access = now => e \in Items(_agents')
         ]_vars

\* a get() has just returned the handle of an entry that had been idle for
\* longer than the ttl
C19_Witness ==
    /\ ev.op = "get"
    /\ ev.hit
    /\ ev.stale
    /\ ev.ok
    /\ GetItem(_agents, ev.key).last_access = now

\* C20: the lock is free whenever no body of `async with self._lock` is
\* running, that is in every state: after a get() whose _create_agent
\* raised, after a sweep, and after stop() has cancelled the sweeper.  So a
\* get() or remove() never waits: whenever a request can be made, the call
\* can run to its return.
C20_LockNeverLeftHeld ==
    /\ _lock = Free
    /\ n_req < MaxReq =>
           /\ \A s \in SessionIds, p \in Providers : ENABLED remove(s, p)
           /\ \A t \in Tasks : pc[t] = "idle" =>
                  \A s \in SessionIds, p \in Providers :
                      ENABLED get(t, s, p, TRUE)

\* the lock is free after a get() whose _create_agent raised, in a run in
\* which stop() has cancelled the sweeper
C20_Witness ==
    /\ ev.op = "get"
    /\ ~ev.ok
    /\ _lock = Free
    /\ \E r \in Reapers : rpc[r] = "cancelled"

====
